---------------------------- MODULE Spec2Model ----------------------------
(***************************************************************************)
(* Wavelet matrix (src/lib.rs): construction by repeated stable bit        *)
(* partitioning, and the access / rank / select traversals.                *)
(*                                                                         *)
(* The rank/select bit-vector (crate fid) is modelled by its contract:     *)
(* a row is a sequence of booleans, positions are 0-based.  A request      *)
(* outside the contract (get(i) with i >= len, rank(i) with i > len,       *)
(* select(k) with k >= number of such bits) is recorded as a fault; what   *)
(* the request then yields is not fixed by the contract, so it is a        *)
(* nondeterministic choice between aborting the call and an arbitrary      *)
(* value.  u64 values are plain integers; a wrapped-around subtraction is  *)
(* kept as the negative number it stands for (2^64 + x), which is above    *)
(* every count of the model.                                               *)
(***************************************************************************)
EXTENDS Integers, Sequences, FiniteSets

\* Longest input sequence drawn by Init.
MaxLen == 2
\* Bit-width of the symbol type T instantiated by Init.
TBits == 2
\* Query positions range over 0 .. len + KOver.
KOver == 1

\* tests: numbers = [4u8, 7, 6, 5, 3, 2, 1, 0, 1, 4, 1, 7], size = 3
ScenarioText == <<4, 7, 6, 5, 3, 2, 1, 0, 1, 4, 1, 7>>
ScenarioSize == 3
ScenarioBits == 8

VARIABLES
    width,       \* bit-width of T (size_of::<T>() * 8)
    text,        \* the caller's input sequence
    pc,          \* "start" | "build" | "ready"
    r,           \* build loop index
    zeros, ones, \* build working buffers
    rows, size, len, partitions,   \* the WaveletMatrix fields
    op, qc, qk,  \* last query and its arguments
    ret,         \* its return value (NoValue when the call was aborted)
    faults       \* requests outside a contract made by the last query, in order

vars == <<width, text, pc, r, zeros, ones, rows, size, len, partitions,
          op, qc, qk, ret, faults>>

\* ret of a call that did not return
NoValue == 0 - 1
\* the outcome "the call is aborted" of an out-of-contract request
Abort == 0 - 1

RECURSIVE Pow2(_)
Pow2(e) == IF e <= 0 THEN 1 ELSE 2 * Pow2(e - 1)

\* b >> s on u64
Shr(b, s) == b \div Pow2(s)

TestBitNoMask(b, s) == Shr(b, s) > 0
\* (b >> s) & 1 > 0
TestBit(b, s) == (Shr(b, s) % 2) > 0

\* a | b on T, bit by bit
RECURSIVE BitOr(_, _)
BitOr(a, b) ==
    IF a = 0 THEN b
    ELSE IF b = 0 THEN a
    ELSE (IF (a % 2) + (b % 2) > 0 THEN 1 ELSE 0) + 2 * BitOr(a \div 2, b \div 2)

\* T::one() << s
ShlOne(s) == Pow2(s)

Symbols(w) == 0 .. (Pow2(w) - 1)

RECURSIVE SeqsUpTo(_, _)
SeqsUpTo(S, n) ==
    IF n = 0 THEN {<<>>}
    ELSE LET shorter == SeqsUpTo(S, n - 1)
         IN shorter \cup {Append(s, x) : s \in {t \in shorter : Len(t) = n - 1}, x \in S}

----------------------------------------------------------------------------
(* fid::BitVector: the contract of the bit-vector the rows are made of *)

BvNew == <<>>
BvPush(bv, bit) == Append(bv, bit)
BvLen(bv) == Len(bv)
BvOnes(bv) == Cardinality({j \in 1..Len(bv) : bv[j]})
BvCount(bv, b) == IF b THEN BvOnes(bv) ELSE Len(bv) - BvOnes(bv)

GetInRange(bv, i) == i >= 0 /\ i < Len(bv)
RankInRange(bv, i) == i >= 0 /\ i <= Len(bv)
SelectInRange(bv, b, k) == k >= 0 /\ k < BvCount(bv, b)

BvGet(bv, i) == bv[i + 1]
BvRank1(bv, i) == Cardinality({j \in 1..i : bv[j]})
BvRank0(bv, i) == i - BvRank1(bv, i)
BvRank(bv, b, i) == IF b THEN BvRank1(bv, i) ELSE BvRank0(bv, i)
BvSelect(bv, b, k) ==
    CHOOSE p \in 0..(Len(bv) - 1) : bv[p + 1] = b /\ BvRank(bv, b, p) = k
BvSelect1(bv, k) == BvSelect(bv, TRUE, k)
BvSelect0(bv, k) == BvSelect(bv, FALSE, k)

\* What an out-of-contract request may do: abort the call, or yield any value.
Outcomes(n) == {Abort} \cup (0..n)

----------------------------------------------------------------------------
(* new_with_size: one iteration of `for r in 0..size` *)

\* for arr in &[zeros, ones] { for &c in arr { ... } }
RECURSIVE PartitionLoop(_, _, _, _)
PartitionLoop(arr, shift, j, acc) ==
    IF j > Len(arr) THEN acc
    ELSE LET c == arr[j]
             bit == TestBit(c, shift)
         IN PartitionLoop(arr, shift, j + 1,
                [bv |-> BvPush(acc.bv, bit),
                 new_zeros |-> IF bit THEN acc.new_zeros ELSE Append(acc.new_zeros, c),
                 new_ones |-> IF bit THEN Append(acc.new_ones, c) ELSE acc.new_ones])

PartitionOfOnes(new_zeros, new_ones) == Len(new_ones)
\* partitions.push(zeros.len() as u64)
PartitionOf(new_zeros, new_ones) == Len(new_zeros)

BuildRowStepOnesFirst(zs, os, sz, row) ==
    LET a0 == [bv |-> BvNew, new_zeros |-> <<>>, new_ones |-> <<>>]
        a1 == PartitionLoop(os, sz - row - 1, 1, a0)
    IN PartitionLoop(zs, sz - row - 1, 1, a1)
\* let mut bv = BitVector::new(); ...; for arr in &[zeros, ones] { ... }
BuildRowStep(zs, os, sz, row) ==
    LET a0 == [bv |-> BvNew, new_zeros |-> <<>>, new_ones |-> <<>>]
        a1 == PartitionLoop(zs, sz - row - 1, 1, a0)
    IN PartitionLoop(os, sz - row - 1, 1, a1)

\* The whole constructor as a function of its arguments.
RECURSIVE BuildFrom(_, _, _, _)
BuildFrom(sz, row, zs_os, acc) ==
    IF row >= sz THEN acc
    ELSE LET st == BuildRowStep(zs_os[1], zs_os[2], sz, row)
         IN BuildFrom(sz, row + 1, <<st.new_zeros, st.new_ones>>,
                [rows |-> Append(acc.rows, st.bv),
                 partitions |-> Append(acc.partitions,
                                       PartitionOf(st.new_zeros, st.new_ones))])

new_with_size(t, sz) ==
    BuildFrom(sz, 0, <<t, <<>>>>, [rows |-> <<>>, partitions |-> <<>>])

----------------------------------------------------------------------------

Init ==
    /\ width = TBits
    /\ text \in SeqsUpTo(Symbols(TBits), MaxLen)
    /\ pc = "start"
    /\ r = 0
    /\ zeros = <<>> /\ ones = <<>>
    /\ rows = <<>> /\ partitions = <<>>
    /\ size = 0 /\ len = 0
    /\ op = "none" /\ qc = 0 /\ qk = 0 /\ ret = NoValue /\ faults = <<>>

InitScenario ==
    /\ width = ScenarioBits
    /\ text = ScenarioText
    /\ pc = "start"
    /\ r = 0
    /\ zeros = <<>> /\ ones = <<>>
    /\ rows = <<>> /\ partitions = <<>>
    /\ size = 0 /\ len = 0
    /\ op = "none" /\ qc = 0 /\ qk = 0 /\ ret = NoValue /\ faults = <<>>

query == <<op, qc, qk, ret, faults>>
matrix == <<rows, size, len, partitions>>

\* new_with_size(text, size): entry, up to the first iteration of the loop
NewWithSize(sz) ==
    /\ pc = "start"
    /\ size' = sz
    /\ zeros' = text
    /\ ones' = <<>>
    /\ rows' = <<>>
    /\ partitions' = <<>>
    /\ r' = 0
    /\ pc' = "build"
    /\ UNCHANGED <<width, text, len, query>>

\* new(text) = new_with_size(text, size_of::<T>() * 8)
New == NewWithSize(width)

\* one iteration of the build loop
BuildRow ==
    /\ pc = "build"
    /\ r < size
    /\ LET st == BuildRowStep(zeros, ones, size, r)
       IN /\ zeros' = st.new_zeros
          /\ ones' = st.new_ones
          /\ rows' = Append(rows, st.bv)
          /\ partitions' = Append(partitions, PartitionOf(st.new_zeros, st.new_ones))
    /\ r' = r + 1
    /\ UNCHANGED <<width, text, pc, size, len, query>>

\* loop exit: WaveletMatrix { rows, size, len: text.len(), partitions }
BuildDone ==
    /\ pc = "build"
    /\ r >= size
    /\ len' = Len(text)
    /\ pc' = "ready"
    /\ UNCHANGED <<width, text, r, zeros, ones, rows, size, partitions, query>>

----------------------------------------------------------------------------
(* access *)

AccessNextOneNoOffset(z, rk) == rk
\* i = self.partitions[r] + bv.rank1(i)
AccessNextOne(z, rk) == z + rk

RECURSIVE AccessLoop(_, _, _)
AccessLoop(row, st, g) ==
    IF row >= Len(rows) \/ st.aborted THEN st
    ELSE LET bv == rows[row + 1]
             getOk == GetInRange(bv, st.i)
             rankOk == RankInRange(bv, st.i)
             f1 == IF getOk THEN st.faults ELSE Append(st.faults, "get_range")
         IN IF ~getOk /\ g = Abort
            THEN [st EXCEPT !.aborted = TRUE, !.faults = f1]
            ELSE LET b == IF getOk THEN BvGet(bv, st.i) ELSE (g % 2 = 1)
                     rk == IF rankOk THEN BvRank(bv, b, st.i) ELSE g
                     f2 == IF rankOk THEN f1 ELSE Append(f1, "rank_range")
                 IN AccessLoop(row + 1,
                        [i |-> IF b THEN AccessNextOne(partitions[row + 1], rk) ELSE rk,
                         n |-> IF b THEN BitOr(st.n, ShlOne(size - row - 1)) ELSE st.n,
                         faults |-> f2,
                         aborted |-> FALSE], g)

access(k, g) ==
    LET st == AccessLoop(0, [i |-> k, n |-> 0, faults |-> <<>>, aborted |-> FALSE], g)
    IN [ret |-> IF st.aborted THEN NoValue ELSE st.n, faults |-> st.faults]

----------------------------------------------------------------------------
(* rank *)

NoClampK(k) == k
\* let mut e = if k < self.len { k } else { self.len };
ClampK(k) == IF k < len THEN k ELSE len

RankAddOffsetNone(b, z, x) == x
\* if b { s = s + z; e = e + z; }
RankAddOffset(b, z, x) == IF b THEN x + z ELSE x

\* A rank request outside the contract ends the call; none arises, since
\* s and e never exceed the row length (faults = <<>> in C2, no
\* "rank_range" in C9).
RECURSIVE RankLoop(_, _, _)
RankLoop(n, row, st) ==
    IF row >= Len(rows) \/ st.aborted THEN st
    ELSE LET bv == rows[row + 1]
             b == TestBit(n, size - row - 1)
         IN IF ~RankInRange(bv, st.s) \/ ~RankInRange(bv, st.e)
            THEN [st EXCEPT !.aborted = TRUE, !.faults = Append(@, "rank_range")]
            ELSE RankLoop(n, row + 1,
                    [s |-> RankAddOffset(b, partitions[row + 1], BvRank(bv, b, st.s)),
                     e |-> RankAddOffset(b, partitions[row + 1], BvRank(bv, b, st.e)),
                     faults |-> st.faults,
                     aborted |-> FALSE])

rank(c, k) ==
    LET st == RankLoop(c, 0, [s |-> 0, e |-> ClampK(k), faults |-> <<>>, aborted |-> FALSE])
    IN IF st.aborted THEN [ret |-> NoValue, faults |-> st.faults]
       ELSE IF st.e < st.s THEN [ret |-> NoValue, faults |-> Append(st.faults, "underflow")]
       ELSE [ret |-> st.e - st.s, faults |-> st.faults]

----------------------------------------------------------------------------
(* select *)

RECURSIVE SelectDescend(_, _, _)
SelectDescend(n, row, st) ==
    IF row >= Len(rows) \/ st.aborted THEN st
    ELSE LET bv == rows[row + 1]
             b == TestBit(n, size - row - 1)
         IN IF ~RankInRange(bv, st.s)
            THEN [st EXCEPT !.aborted = TRUE, !.faults = Append(@, "rank_range")]
            ELSE SelectDescend(n, row + 1,
                    [s |-> RankAddOffset(b, partitions[row + 1], BvRank(bv, b, st.s)),
                     faults |-> st.faults,
                     aborted |-> FALSE])

SelectStartIgnoreK(s, k) == s
\* let mut e = s + k;
SelectStart(s, k) == s + k

SelectArgNoOffset(b, z, e) == e
\* e - z for a 1 bit (select1(e - z)), e for a 0 bit (select0(e))
SelectArg(b, z, e) == IF b THEN e - z ELSE e

\* g: what an out-of-contract select yields (Abort, or a value);
\* dbg: the build checks arithmetic overflow (a panic) instead of wrapping.
RECURSIVE SelectAscend(_, _, _, _, _)
SelectAscend(n, row, st, g, dbg) ==
    IF row < 0 \/ st.aborted THEN st
    ELSE LET bv == rows[row + 1]
             b == TestBit(n, size - row - 1)
             arg == SelectArg(b, partitions[row + 1], st.e)
             under == arg < 0
             f1 == IF under THEN Append(st.faults, "underflow") ELSE st.faults
             ok == SelectInRange(bv, b, arg)
             f2 == IF ok THEN f1 ELSE Append(f1, "select_range")
         IN IF under /\ dbg
            THEN [st EXCEPT !.aborted = TRUE, !.faults = f1]
            ELSE IF ~ok /\ g = Abort
            THEN [st EXCEPT !.aborted = TRUE, !.faults = f2]
            ELSE SelectAscend(n, row - 1,
                    [e |-> IF ok THEN BvSelect(bv, b, arg) ELSE g,
                     faults |-> f2,
                     aborted |-> FALSE], g, dbg)

select(c, k, g, dbg) ==
    LET d == SelectDescend(c, 0, [s |-> 0, faults |-> <<>>, aborted |-> FALSE])
    IN IF d.aborted THEN [ret |-> NoValue, faults |-> d.faults]
       ELSE LET a == SelectAscend(c, Len(rows) - 1,
                        [e |-> SelectStart(d.s, k), faults |-> d.faults, aborted |-> FALSE],
                        g, dbg)
            IN [ret |-> IF a.aborted THEN NoValue ELSE a.e, faults |-> a.faults]

----------------------------------------------------------------------------
(* the queries on a constructed matrix *)

QueryKs == 0 .. (len + KOver)

Access(k) ==
    /\ pc = "ready"
    /\ op = "none"
    /\ \E g \in Outcomes(len) :
         LET res == access(k, g)
         IN /\ ret' = res.ret
            /\ faults' = res.faults
    /\ op' = "access" /\ qc' = 0 /\ qk' = k
    /\ UNCHANGED <<width, text, pc, r, zeros, ones, matrix>>

Rank(c, k) ==
    /\ pc = "ready"
    /\ op = "none"
    /\ LET res == rank(c, k)
       IN /\ ret' = res.ret
          /\ faults' = res.faults
    /\ op' = "rank" /\ qc' = c /\ qk' = k
    /\ UNCHANGED <<width, text, pc, r, zeros, ones, matrix>>

Select(c, k) ==
    /\ pc = "ready"
    /\ op = "none"
    /\ \E g \in Outcomes(len), dbg \in BOOLEAN :
         LET res == select(c, k, g, dbg)
         IN /\ ret' = res.ret
            /\ faults' = res.faults
    /\ op' = "select" /\ qc' = c /\ qk' = k
    /\ UNCHANGED <<width, text, pc, r, zeros, ones, matrix>>

\* len()
LenQuery ==
    /\ pc = "ready"
    /\ op = "none"
    /\ op' = "len" /\ qc' = 0 /\ qk' = 0
    /\ ret' = len
    /\ faults' = <<>>
    /\ UNCHANGED <<width, text, pc, r, zeros, ones, matrix>>

\* The call returns to its caller; the matrix, never mutated, takes the next
\* query.  An aborted call (a panic) does not return.
QueryReturn ==
    /\ pc = "ready"
    /\ op # "none"
    /\ ret # NoValue
    /\ op' = "none" /\ qc' = 0 /\ qk' = 0 /\ ret' = NoValue /\ faults' = <<>>
    /\ UNCHANGED <<width, text, pc, r, zeros, ones, matrix>>

Next ==
    \/ \E sz \in 0..width : NewWithSize(sz)
    \/ New
    \/ BuildRow
    \/ BuildDone
    \/ \E k \in QueryKs : Access(k)
    \/ \E c \in Symbols(width), k \in QueryKs : Rank(c, k)
    \/ \E c \in Symbols(width), k \in QueryKs : Select(c, k)
    \/ LenQuery
    \/ QueryReturn

Spec == Init /\ [][Next]_vars

\* The tests' run: new_with_size(numbers, 3), then queries with the symbols
\* `for i in 0..(1 << size)`.
NextScenario ==
    \/ NewWithSize(ScenarioSize)
    \/ BuildRow
    \/ BuildDone
    \/ \E k \in QueryKs : Access(k)
    \/ \E c \in Symbols(ScenarioSize), k \in QueryKs : Rank(c, k)
    \/ \E c \in Symbols(ScenarioSize), k \in QueryKs : Select(c, k)
    \/ LenQuery
    \/ QueryReturn

SpecScenario == InitScenario /\ [][NextScenario]_vars

----------------------------------------------------------------------------
(* Reference definitions the properties are stated against *)

MinOf(a, b) == IF a < b THEN a ELSE b
Trunc(v) == v % Pow2(size)
TruncSeq(t) == [j \in 1..Len(t) |-> Trunc(t[j])]
RefBit(v, p) == (v \div Pow2(p)) % 2 = 1
HasFault(f) == \E i \in 1..Len(faults) : faults[i] = f
Returned(o) == pc = "ready" /\ op = o

\* brute-force counts over the original sequence
CountExact(c, k) == Cardinality({j \in 1..MinOf(k, Len(text)) : text[j] = c})
CountTrunc(c, k) == Cardinality({j \in 1..MinOf(k, Len(text)) : Trunc(text[j]) = Trunc(c)})
Occurrences(c) == {p \in 0..(Len(text) - 1) : Trunc(text[p + 1]) = Trunc(c)}
KthOccurrence(c, k) ==
    CHOOSE p \in Occurrences(c) : Cardinality({q \in Occurrences(c) : q < p}) = k
Exhausted == qk >= CountTrunc(qc, Len(text))
FitsSize == qc < Pow2(size) /\ \A j \in 1..Len(text) : text[j] < Pow2(size)

\* the sequence at level q: q stable zeros-then-ones partitions of the input
RECURSIVE Level(_)
Level(q) ==
    IF q = 0 THEN text
    ELSE LET prev == Level(q - 1)
             IsZero(v) == ~RefBit(v, size - q)
             IsOne(v) == RefBit(v, size - q)
         IN SelectSeq(prev, IsZero) \o SelectSeq(prev, IsOne)

----------------------------------------------------------------------------
(* C1: access(i), for 0 <= i < n, returns the original element S[i]
   truncated to its low `size` bits, for every size from 0 to the width
   of the symbol type, without any out-of-contract request. *)
C1_AccessRoundTrip ==
    (Returned("access") /\ qk < len) =>
        /\ size <= width
        /\ faults = <<>>
        /\ ret = Trunc(text[qk + 1])

\* an access that dropped set high bits of the element
C1_Witness ==
    /\ Returned("access") /\ qk < len /\ qk >= 1
    /\ size >= 1 /\ size < width
    /\ text[qk + 1] >= Pow2(size)
    /\ ret = Trunc(text[qk + 1]) /\ ret >= 1

(* C2 as stated: rank(c, k) equals the number of positions j < min(k, n)
   whose element equals c. *)
C2_RankCountsEqualElements ==
    Returned("rank") => ret = CountExact(qc, qk)

(* C2 amended: rank(c, k), for any k (clamped to n, never an error), is the
   number of positions j < min(k, n) whose element agrees with c on the low
   `size` bits; it is the number of elements equal to c when c and the
   elements fit in `size` bits; rank(c, 0) = 0; rank is non-decreasing in k;
   on an empty sequence it is 0. *)
C2_RankCountsTruncated ==
    Returned("rank") =>
        /\ faults = <<>>
        /\ ret = CountTrunc(qc, qk)
        /\ (FitsSize => ret = CountExact(qc, qk))
        /\ (qk = 0 => ret = 0)
        /\ (len = 0 => ret = 0)
        /\ (qk >= 1 => rank(qc, qk - 1).ret <= ret)
        /\ ret <= rank(qc, qk + 1).ret

\* a clamped rank (k > n) that counts an element differing from c in a high bit
C2_Witness ==
    /\ Returned("rank") /\ qk > len
    /\ size >= 1
    /\ ret >= 1
    /\ ret # CountExact(qc, qk)

(* C3 as stated: for k < rank(c, n), access(select(c, k)) == c and
   rank(c, select(c, k)) == k. *)
C3_SelectInverseExact ==
    (Returned("select") /\ qk < rank(qc, len).ret) =>
        /\ faults = <<>>
        /\ access(ret, Abort).ret = qc
        /\ rank(qc, ret).ret = qk

(* C3 amended: for k < rank(c, n), select(c, k) is the position of the
   (k+1)-th element that agrees with c on the low `size` bits:
   access(select(c, k)) == c mod 2^size, rank(c, select(c, k)) == k, and
   select(c, k) is strictly increasing in k; no out-of-contract request. *)
C3_SelectInverseTruncated ==
    (Returned("select") /\ qk < rank(qc, len).ret) =>
        /\ faults = <<>>
        /\ ret = KthOccurrence(qc, qk)
        /\ access(ret, Abort).ret = Trunc(qc)
        /\ (FitsSize => access(ret, Abort).ret = qc)
        /\ rank(qc, ret).ret = qk
        /\ (qk >= 1 => select(qc, qk - 1, Abort, TRUE).ret < ret)

\* the second occurrence of a symbol given with a set high bit
C3_Witness ==
    /\ Returned("select") /\ qk >= 1 /\ qk < rank(qc, len).ret
    /\ size >= 1
    /\ qc >= Pow2(size)
    /\ ret >= 1

\* The matrix as constructed: queries take &self and leave it unchanged, so
\* it is examined in the states between two calls.
Constructed == pc = "ready" /\ op = "none"

(* C4: bits above position size-1 are never read: the rows and partitions
   are those built from the sequence with every element reduced mod 2^size,
   rank(c, k) and select(c, k) are those of c mod 2^size (whatever an
   out-of-contract request yields), and a set high bit causes no fault of
   its own. *)
C4_TruncationUniform ==
    /\ Constructed =>
          LET t == new_with_size(TruncSeq(text), size)
          IN rows = t.rows /\ partitions = t.partitions
    /\ (Returned("rank") /\ qc # Trunc(qc)) =>
          [ret |-> ret, faults |-> faults] = rank(Trunc(qc), qk)
    /\ (Returned("select") /\ qc # Trunc(qc)) =>
          /\ \A g \in Outcomes(len), dbg \in BOOLEAN :
                select(qc, qk, g, dbg) = select(Trunc(qc), qk, g, dbg)
          /\ \E g \in Outcomes(len), dbg \in BOOLEAN :
                [ret |-> ret, faults |-> faults] = select(Trunc(qc), qk, g, dbg)
    /\ (Returned("access") /\ qk < len) => faults = <<>>

\* a select of a symbol with a set high bit, on elements with set high bits
C4_Witness ==
    /\ Returned("select")
    /\ size >= 1 /\ size < width
    /\ qc >= Pow2(size)
    /\ \E j \in 1..Len(text) : text[j] >= Pow2(size)
    /\ faults = <<>> /\ ret >= 1

Degenerate == pc = "ready" /\ (size = 0 \/ len = 0)
RowsEmpty == \A q \in 1..Len(rows) : Len(rows[q]) = 0

(* C5 as stated: with size == 0 or n == 0 all rows are empty and every
   query, for any arguments, returns without an out-of-range bit-vector
   request or an underflow. *)
C5_DegenerateNeverErrors ==
    Degenerate =>
        /\ RowsEmpty
        /\ (op # "none" => faults = <<>> /\ ret # NoValue)

(* C5 amended: with size == 0 or n == 0 all rows are empty and all
   partitions are 0; rank returns (0 when n == 0) for any arguments without
   an error; with size == 0 access and select make no bit-vector request
   and cannot fail either; but with n == 0 and size >= 1 every access(k)
   starts with an out-of-range get and every select(c, k) with an
   out-of-range select0/select1 on an empty row. *)
C5_DegenerateAmended ==
    Degenerate =>
        /\ RowsEmpty
        /\ \A q \in 1..Len(partitions) : partitions[q] = 0
        /\ (op = "rank" => faults = <<>> /\ ret # NoValue /\ (len = 0 => ret = 0))
        /\ (op = "len" => faults = <<>> /\ ret = Len(text))
        /\ (size = 0 /\ op \in {"access", "select"} => faults = <<>> /\ ret # NoValue)
        /\ (size >= 1 /\ op = "access" => faults # <<>> /\ Head(faults) = "get_range")
        /\ (size >= 1 /\ op = "select" => faults # <<>> /\ Head(faults) = "select_range")

\* an access on the matrix of an empty sequence
C5_Witness ==
    /\ Degenerate /\ size >= 1 /\ len = 0
    /\ op = "access" /\ qk = 0
    /\ HasFault("get_range")

(* C6: with size == 0 every symbol reduces to 0: access(i) == 0 for i < n,
   rank(c, k) == min(k, n) for every c, select(c, k) == k for k < n. *)
C6_DegenerateWidth ==
    (pc = "ready" /\ size = 0) =>
        /\ (op = "access" /\ qk < len => faults = <<>> /\ ret = 0)
        /\ (op = "rank" => faults = <<>> /\ ret = MinOf(qk, Len(text)))
        /\ (op = "rank" /\ qc = 0 /\ qk = len => ret = Len(text))
        /\ (op = "select" /\ qk < len => faults = <<>> /\ ret = qk)

\* select of a non-zero symbol on a width-0 matrix of two elements
C6_Witness ==
    /\ Returned("select") /\ size = 0
    /\ len >= 2 /\ qk = 1 /\ qc >= 1
    /\ ret = 1

ScenarioBuilt == pc = "ready" /\ text = ScenarioText /\ size = ScenarioSize

(* C7 as stated: on [4,7,6,5,3,2,1,0,1,4,1,7] with size 3, access(0) == 4,
   access(9) == 4, rank(1, 8) == 2, select(1, 0) == 6, select(1, 1) == 8. *)
C7_ScenarioAsStated ==
    ScenarioBuilt =>
        /\ (op = "access" /\ qk = 0 => ret = 4)
        /\ (op = "access" /\ qk = 9 => ret = 4)
        /\ (op = "rank" /\ qc = 1 /\ qk = 8 => ret = 2)
        /\ (op = "select" /\ qc = 1 /\ qk = 0 => ret = 6)
        /\ (op = "select" /\ qc = 1 /\ qk = 1 => ret = 8)

(* C7 amended: on [4,7,6,5,3,2,1,0,1,4,1,7] with size 3, access(0) == 4,
   access(9) == 4, rank(1, 8) == 1 (the only 1 among the first 8 elements
   is at position 6; rank(1, 9) == 2), select(1, 0) == 6, select(1, 1) == 8. *)
C7_ScenarioAmended ==
    ScenarioBuilt =>
        /\ (op = "access" /\ qk = 0 => ret = 4)
        /\ (op = "access" /\ qk = 9 => ret = 4)
        /\ (op = "rank" /\ qc = 1 /\ qk = 8 => ret = 1)
        /\ (op = "rank" /\ qc = 1 /\ qk = 9 => ret = 2)
        /\ (op = "select" /\ qc = 1 /\ qk = 0 => ret = 6)
        /\ (op = "select" /\ qc = 1 /\ qk = 1 => ret = 8)

\* rank(1, 8) has returned on the scenario's matrix
C7_Witness ==
    /\ ScenarioBuilt
    /\ op = "rank" /\ qc = 1 /\ qk = 8
    /\ ret = 1

(* C8: during construction (after every iteration of the build loop) and
   after it, there is one row and one partition per level built (size of
   each at the end), every row has length n, 0 <= partitions[q] <= n,
   partitions[q] is the number of 0 bits of row q, row q holds bit
   (size-q-1) of the input after q stable zeros-then-ones partitions, the
   working buffers hold the next level, and len() == n. *)
C8_BuildInvariant ==
    /\ (pc \in {"build", "ready"}) =>
          /\ Len(rows) = r /\ Len(partitions) = r /\ r <= size
          /\ (pc = "ready" => r = size /\ len = Len(text))
          /\ (op = "len" => ret = Len(text))
    /\ (pc = "build" \/ Constructed) =>
          /\ zeros \o ones = Level(r)
          /\ \A q \in 0..(r - 1) :
                LET lv == Level(q)
                IN /\ BvLen(rows[q + 1]) = Len(text)
                   /\ partitions[q + 1] >= 0 /\ partitions[q + 1] <= Len(text)
                   /\ partitions[q + 1] = BvCount(rows[q + 1], FALSE)
                   /\ rows[q + 1] = [j \in 1..Len(text) |-> RefBit(lv[j], size - q - 1)]

\* two levels built, both groups populated, the two partitions differ
C8_Witness ==
    /\ pc = "build" /\ r >= 2
    /\ Len(zeros) >= 1 /\ Len(ones) >= 1
    /\ partitions[1] # partitions[2]

(* C9: select has no guard on k: with size >= 1 a select_range fault (a
   select0/select1 request with an index >= the number of such bits of the
   row) occurs exactly when k >= rank(c, n), and the subtraction
   e - partitions[r] underflows only in such a call. *)
C9_ExhaustedSelectUnguarded ==
    (Returned("select") /\ size >= 1) =>
        /\ (Exhausted <=> HasFault("select_range"))
        /\ (HasFault("underflow") => Exhausted)
        /\ ~HasFault("rank_range")

\* an exhausted select whose ascent made an out-of-range request and underflowed
C9_Witness ==
    /\ Returned("select") /\ size >= 1
    /\ Exhausted
    /\ HasFault("select_range")
    /\ HasFault("underflow")

(* C10: for size >= 1, select(c, k) with k >= rank(c, n) never completes on
   in-range requests only: its first fault is an out-of-range select0/select1,
   before any underflow of e - partitions[r]; for size == 0 select(c, k)
   returns k for any k without a fault. *)
C10_OverRangeFirst ==
    Returned("select") =>
        /\ (size >= 1 /\ Exhausted => faults # <<>> /\ Head(faults) = "select_range")
        /\ (size = 0 => faults = <<>> /\ ret = qk)

\* an exhausted select of a symbol that occurs, on two levels, where the
\* underflow came after the out-of-range request
C10_Witness ==
    /\ Returned("select") /\ size >= 2
    /\ Exhausted /\ CountTrunc(qc, Len(text)) >= 1
    /\ Len(faults) >= 2
    /\ Head(faults) = "select_range"
    /\ HasFault("underflow")

============================================================================
